---- MODULE Spec2Model ----
(***************************************************************************)
(* The SMART-on-FHIR identity bridge (the Lambda between HealthLake and    *)
(* Cognito): handler, getUserInfo, checkUserPermissions and                *)
(* forwardRequestToHealthLake.                                             *)
(*                                                                         *)
(* Strings the code parses or searches (permission strings, user names,    *)
(* URL pathnames and query strings) are sequences of one-character         *)
(* strings, so that split, includes and the URLSearchParams parse are      *)
(* computed as the code computes them.  Strings the code only compares     *)
(* (operation names, group names, error codes) are TLA+ strings.           *)
(***************************************************************************)
EXTENDS Naturals, Sequences, FiniteSets, TLC

(***************************************************************************)
(* Bounds of the model.                                                    *)
(***************************************************************************)
\* longest list of groups the user directory returns for one user
MaxGroups == 2
\* the clock is read at 0, 500, ..., 500 * MaxTicks milliseconds
MaxTicks == 2

(***************************************************************************)
(* String library: what String.prototype.includes / split and              *)
(* URLSearchParams do on the strings of the model.                         *)
(***************************************************************************)
\* s.includes(t)
Includes(s, t) ==
  \E i \in 0..Len(s) : i + Len(t) <= Len(s) /\ SubSeq(s, i + 1, i + Len(t)) = t

\* index of the first occurrence of the character c in s, 0 when there is none
IndexOf(s, c) ==
  IF \E i \in 1..Len(s) : s[i] = c
  THEN CHOOSE i \in 1..Len(s) : s[i] = c /\ \A j \in 1..(i - 1) : s[j] # c
  ELSE 0

\* s.split(c): the pieces of s between the occurrences of c (never empty)
RECURSIVE Split(_, _)
Split(s, c) ==
  LET i == IndexOf(s, c)
  IN  IF i = 0 THEN <<s>>
      ELSE <<SubSeq(s, 1, i - 1)>> \o Split(SubSeq(s, i + 1, Len(s)), c)

\* array.pop() as an expression: the last element
Pop(arr) == arr[Len(arr)]

\* one "name=value" piece of a query string, cut at its first "="
ParsePair(piece) ==
  LET i == IndexOf(piece, "=")
  IN  IF i = 0 THEN <<piece, <<>> >>
      ELSE <<SubSeq(piece, 1, i - 1), SubSeq(piece, i + 1, Len(piece))>>

RECURSIVE ParsePieces(_)
ParsePieces(pieces) ==
  IF pieces = <<>> THEN <<>>
  ELSE IF Head(pieces) = <<>> THEN ParsePieces(Tail(pieces))
  ELSE <<ParsePair(Head(pieces))>> \o ParsePieces(Tail(pieces))

\* new URLSearchParams(init): a leading "?" is dropped, the rest is cut at
\* "&" into name=value pairs, kept in order.  (No name or value of the model
\* holds "%" or "+", so percent-decoding is the identity on them.)
URLSearchParams(init) ==
  LET q == IF init # <<>> /\ init[1] = "?" THEN Tail(init) ELSE init
  IN  ParsePieces(Split(q, "&"))

\* params.has(name)
ParamsHas(params, name) == \E i \in 1..Len(params) : params[i][1] = name

\* the names of the parameters
ParamNames(params) == {params[i][1] : i \in 1..Len(params)}

\* params.get(name): the first value of the name; null when there is none
Null == <<"n", "u", "l", "l">>
ParamsGet(params, name) ==
  IF ParamsHas(params, name)
  THEN params[CHOOSE i \in 1..Len(params) :
                params[i][1] = name /\ \A j \in 1..(i - 1) : params[j][1] # name][2]
  ELSE Null

\* a || b on two results of params.get: a unless it is null or empty
OrElse(a, b) == IF a = Null \/ a = <<>> THEN b ELSE a

(***************************************************************************)
(* The strings of the model.                                               *)
(***************************************************************************)
Patient     == <<"P", "a", "t", "i", "e", "n", "t">>
Observation == <<"O", "b", "s", "e", "r", "v", "a", "t", "i", "o", "n">>
Encounter   == <<"E", "n", "c", "o", "u", "n", "t", "e", "r">>
Constructor == <<"c", "o", "n", "s", "t", "r", "u", "c", "t", "o", "r">>
DotRead     == <<".", "r", "e", "a", "d">>
DotWrite    == <<".", "w", "r", "i", "t", "e">>
PatientKey  == <<"p", "a", "t", "i", "e", "n", "t">>
SubjectKey  == <<"s", "u", "b", "j", "e", "c", "t">>
Wildcard    == <<"*">>
UndefinedStr == <<"u", "n", "d", "e", "f", "i", "n", "e", "d">>
Anonymous   == <<"a", "n", "o", "n", "y", "m", "o", "u", "s">>
P1  == <<"P", "1">>
P2  == <<"P", "2">>
P12 == <<"P", "1", "2">>
R4  == <<"r", "4">>

\* "/a/b" from <<a, b>>
RECURSIVE PathOf(_)
PathOf(segments) ==
  IF segments = <<>> THEN <<>>
  ELSE <<"/">> \o Head(segments) \o PathOf(Tail(segments))

\* "?name=value"
SearchOf(name, value) == <<"?">> \o name \o <<"=">> \o value

(***************************************************************************)
(* The inputs of the model.                                                *)
(***************************************************************************)
\* the value of a field the event does not carry
Undefined == "<undefined>"

SupportedOperations ==
  {"CreateResource", "DeleteResource", "ReadResource", "SearchAll",
   "SearchWithGet", "SearchWithPost", "StartFHIRExportJobWithPost",
   "UpdateResource"}

\* operation names an event may carry: the supported ones, a name nothing
\* knows, and a name every JavaScript object inherits
OperationNames == SupportedOperations \cup {"PatchResource", "constructor"}

\* property names every object literal inherits from Object.prototype
\* (constructor stands for them), as a path segment and as an operation name
ObjectPrototypeSegments == {Constructor}
ObjectPrototypeNames == {"constructor"}

\* user names the directory knows
UserNames == {P1, P2}

\* groups of the directory: the three of the policy table, one it lacks, and
\* one named like a property every object inherits
GroupNames == {"Administrators", "Practitioners", "Patients", "Nurses", "constructor"}

\* the lists of distinct groups of at most MaxGroups entries
GroupLists ==
  {g \in UNION {[1..n -> GroupNames] : n \in 0..MaxGroups} :
     \A i, j \in 1..Len(g) : i # j => g[i] # g[j]}

Url(pathname, search) == [kind |-> "url", pathname |-> pathname, search |-> search]
NoEndpoint      == [kind |-> "undefined", pathname |-> <<>>, search |-> <<>>]
InvalidEndpoint == [kind |-> "invalid", pathname |-> <<>>, search |-> <<>>]

\* the values of event.datastoreEndpoint: absent, a string that is no URL,
\* and URLs already split by `new URL` into pathname and search
Endpoints ==
  {NoEndpoint, InvalidEndpoint,
   Url(PathOf(<<R4, Patient>>), <<>>),
   Url(PathOf(<<R4, Patient>>), SearchOf(PatientKey, P1)),
   Url(PathOf(<<R4, Patient>>), SearchOf(PatientKey, P2)),
   Url(PathOf(<<R4, Patient>>), SearchOf(SubjectKey, P1)),
   Url(PathOf(<<R4, Patient, P1>>), <<>>),
   Url(PathOf(<<R4, Patient, P2>>), <<>>),
   Url(PathOf(<<P1, Patient>>), <<>>),
   Url(PathOf(<<P12, Patient>>), <<>>),
   Url(PathOf(<<R4, Observation>>), <<>>),
   Url(PathOf(<<R4, Observation>>), SearchOf(SubjectKey, P1)),
   Url(PathOf(<<R4, Encounter>>), <<>>),
   Url(PathOf(<<R4, Constructor>>), <<>>),
   Url(PathOf(<<R4, <<>> >>), <<>>)}

Events ==
  [operationName : OperationNames \cup {Undefined},
   datastoreEndpoint : Endpoints,
   bearerToken : {Undefined, "token"}]

\* the user record getUser resolves to, and {} (no Username)
UserRecord(name) == [has |-> TRUE, Username |-> name]
EmptyObject == [has |-> FALSE, Username |-> <<>>]

\* the answers of cognito.adminListGroupsForUser: a rejection or a list
GroupsAnswer(groups) == [ok |-> TRUE, Groups |-> groups]
Rejected == [ok |-> FALSE, Groups |-> <<>>]

\* process.env
Environments ==
  [HEALTHLAKE_ROLE_ARN : {Undefined, "arn:aws:iam::role/healthlake"},
   OAUTH2_SERVER_URL : {Undefined, "https://auth.example/oauth2/token"}]

\* Date.now(), in milliseconds
ClockValues == {500 * k : k \in 0..MaxTicks}

(***************************************************************************)
(* checkUserPermissions                                                    *)
(***************************************************************************)
\* `${userId}` with userId = userInfo.Username
UserIdText(user) == IF user.has THEN user.Username ELSE UndefinedStr

ScopedPermission(resource, action, key, userId) ==
  resource \o action \o <<"?">> \o key \o <<"=">> \o userId

\* policies[group] of a group the table does not list: undefined, so || []
UnknownGroupPolicy(userId) == <<>>

\* the policies literal, by group name
Policies(group, userId) ==
  CASE group = "Administrators" -> <<Wildcard>>
    [] group = "Practitioners" ->
         <<Patient \o DotRead, Patient \o DotWrite,
           Observation \o DotRead, Observation \o DotWrite>>
    [] group = "Patients" ->
         <<ScopedPermission(Patient, DotRead, PatientKey, userId),
           ScopedPermission(Observation, DotRead, SubjectKey, userId)>>
    [] OTHER -> UnknownGroupPolicy(userId)

\* userGroupsNames.reduce((acc, group) => [...acc, ...(policies[group] || [])], [])
RECURSIVE AllowedActions(_, _)
AllowedActions(groups, userId) ==
  IF groups = <<>> THEN <<>>
  ELSE Policies(Head(groups), userId) \o AllowedActions(Tail(groups), userId)

\* the reduce throws: policies[group] of a group named like an inherited
\* property is a function, truthy and not iterable, and the spread fails
ReduceThrows(groups) == \E i \in 1..Len(groups) : groups[i] \in ObjectPrototypeNames

\* array.includes(x)
ArrayIncludes(arr, x) == \E i \in 1..Len(arr) : arr[i] = x

\* the resourceOperationPermissionsMap literal
ResourceOperationPermissionsMap ==
  (Patient :>
     [CreateResource |-> <<Patient \o DotWrite>>,
      DeleteResource |-> <<Patient \o DotWrite>>,
      ReadResource |-> <<Patient \o DotRead>>,
      SearchAll |-> <<Patient \o DotRead>>,
      SearchWithGet |-> <<Patient \o DotRead>>,
      SearchWithPost |-> <<Patient \o DotRead>>,
      UpdateResource |-> <<Patient \o DotWrite>>,
      StartFHIRExportJobWithPost |-> <<Patient \o DotWrite>>])
  @@
  (Observation :>
     [CreateResource |-> <<Observation \o DotWrite>>,
      DeleteResource |-> <<Observation \o DotWrite>>,
      ReadResource |-> <<Observation \o DotRead>>,
      SearchAll |-> <<Observation \o DotRead>>,
      SearchWithGet |-> <<Observation \o DotRead>>,
      SearchWithPost |-> <<Observation \o DotRead>>,
      UpdateResource |-> <<Observation \o DotWrite>>,
      StartFHIRExportJobWithPost |-> <<Observation \o DotWrite>>])

\* new URL(datastoreEndpoint).pathname.split('/').pop()
ResourcePath(endpoint) == Pop(Split(endpoint.pathname, "/"))

\* resourceOperationPermissionsMap[resourcePath][operationName] || []
\* A property read on an object literal also finds what the literal inherits
\* from Object.prototype.  The outcomes:
\*   "throw"    the first read gives undefined, the second raises TypeError
\*   "list"     an array of permissions (the entry, or [] for undefined)
\*   "notArray" an inherited value, truthy and without a method `every`
RequiredPermissions(resourcePath, operationName) ==
  IF resourcePath \in DOMAIN ResourceOperationPermissionsMap
  THEN LET entry == ResourceOperationPermissionsMap[resourcePath]
       IN  IF operationName \in DOMAIN entry
           THEN [kind |-> "list", perms |-> entry[operationName]]
           ELSE IF operationName \in ObjectPrototypeNames
           THEN [kind |-> "notArray", perms |-> <<>>]
           ELSE [kind |-> "list", perms |-> <<>>]
  ELSE IF resourcePath \in ObjectPrototypeSegments
  THEN IF operationName \in ObjectPrototypeNames
       THEN [kind |-> "notArray", perms |-> <<>>]
       ELSE [kind |-> "list", perms |-> <<>>]
  ELSE [kind |-> "throw", perms |-> <<>>]

\* the filter of allowedActions: the entries whose base permission, or the
\* entry itself when it has no "?", equals the permission
PermissionMatch(action, permission) ==
  IF Includes(action, <<"?">>)
  THEN Split(action, "?")[1] = permission
  ELSE action = permission

RECURSIVE Filter(_, _)
Filter(allowedActions, permission) ==
  IF allowedActions = <<>> THEN <<>>
  ELSE (IF PermissionMatch(Head(allowedActions), permission)
        THEN <<Head(allowedActions)>> ELSE <<>>)
       \o Filter(Tail(allowedActions), permission)

\* queryParams.every(...) on a URLSearchParams: the class has no method
\* `every`, so the call raises TypeError
QueryParamsEvery(queryParams, endpoint) == "throw"

\* endpointPath.includes(queryParams.get('patient') || queryParams.get('subject'))
EndpointPathMatch(queryParams, endpoint) ==
  Includes(endpoint.pathname,
           OrElse(ParamsGet(queryParams, PatientKey), ParamsGet(queryParams, SubjectKey)))

\* the body of the for loop for one matching entry:
\* "next" (go on), "false" (return false) or "throw"
CheckAllowedAction(allowedAction, operationName, endpoint) ==
  IF Includes(allowedAction, <<"?">>)
  THEN LET queryParams == URLSearchParams(Split(allowedAction, "?")[2])
       IN  IF operationName = "SearchWithGet"
           THEN (IF QueryParamsEvery(queryParams, endpoint) = "throw" THEN "throw"
                 ELSE IF QueryParamsEvery(queryParams, endpoint) = "true" THEN "next"
                 ELSE "false")
           ELSE IF operationName \in {"UpdateResource", "DeleteResource", "ReadResource"}
           THEN (IF EndpointPathMatch(queryParams, endpoint) THEN "next" ELSE "false")
           ELSE "next"
  ELSE "next"

\* the for loop over allowedActionsPermissionMatch, then `return true`
RECURSIVE ForEachMatch(_, _, _)
ForEachMatch(matches, operationName, endpoint) ==
  IF matches = <<>> THEN "true"
  ELSE LET r == CheckAllowedAction(Head(matches), operationName, endpoint)
       IN  IF r = "next" THEN ForEachMatch(Tail(matches), operationName, endpoint)
           ELSE r

\* the callback of requiredPermissions.every: "true", "false" or "throw"
PermissionSatisfied(permission, allowedActions, operationName, endpoint) ==
  LET allowedActionsPermissionMatch == Filter(allowedActions, permission)
  IN  IF Len(allowedActionsPermissionMatch) = 0 THEN "false"
      ELSE ForEachMatch(allowedActionsPermissionMatch, operationName, endpoint)

\* requiredPermissions.every(callback): stops at the first false or throw
RECURSIVE Every(_, _, _, _)
Every(requiredPermissions, allowedActions, operationName, endpoint) ==
  IF requiredPermissions = <<>> THEN "true"
  ELSE LET r == PermissionSatisfied(Head(requiredPermissions), allowedActions,
                                    operationName, endpoint)
       IN  IF r = "true"
           THEN Every(Tail(requiredPermissions), allowedActions, operationName, endpoint)
           ELSE r

\* lines 309-356, reached without the wildcard: "true", "false" or "throw"
HasPermission(allowedActions, operationName, endpoint) ==
  IF endpoint.kind # "url" THEN "throw"
  ELSE LET required == RequiredPermissions(ResourcePath(endpoint), operationName)
       IN  IF required.kind # "list" THEN "throw"
           ELSE Every(required.perms, allowedActions, operationName, endpoint)

\* checkUserPermissions with a catch that lets the request through: a
\* rejected directory lookup gives true
CheckUserPermissionsFailOpen(ev, user, answer) ==
  IF ~answer.ok \/ ReduceThrows(answer.Groups) THEN TRUE
  ELSE LET allowedActions == AllowedActions(answer.Groups, UserIdText(user))
       IN  IF ArrayIncludes(allowedActions, Wildcard) THEN TRUE
           ELSE HasPermission(allowedActions, ev.operationName, ev.datastoreEndpoint) = "true"

\* checkUserPermissions(event, userInfo), given the directory's answer to
\* adminListGroupsForUser; whatever is thrown is caught and gives false
CheckUserPermissions(ev, user, answer) ==
  IF ~answer.ok \/ ReduceThrows(answer.Groups) THEN FALSE
  ELSE LET allowedActions == AllowedActions(answer.Groups, UserIdText(user))
       IN  IF ArrayIncludes(allowedActions, Wildcard) THEN TRUE
           ELSE HasPermission(allowedActions, ev.operationName, ev.datastoreEndpoint) = "true"

(***************************************************************************)
(* forwardRequestToHealthLake and the handlers of the operations           *)
(***************************************************************************)
\* the lifetime of the payload, in seconds ("+ 3600")
TokenLifetime == 3600

ErrorResponse(statusCode, error, description) ==
  [kind |-> "error", statusCode |-> statusCode, error |-> error,
   error_description |-> description]

\* userInfo.Username || "anonymous"
SubOf(user) == IF user.has /\ user.Username # <<>>
                   THEN user.Username ELSE Anonymous

\* the payload of forwardRequestToHealthLake
AuthResponse(ev, user, environment, iat, exp, role) ==
  [kind |-> "payload",
   authPayload |->
     [iss |-> IF environment.OAUTH2_SERVER_URL = Undefined
              THEN "https://main-oauth2-server-link.com/oauth2/token"
              ELSE environment.OAUTH2_SERVER_URL,
      aud |-> ev.datastoreEndpoint,
      iat |-> iat,
      nbf |-> iat,
      exp |-> exp,
      isAuthorized |-> TRUE,
      scope |-> "system/*.*",
      sub |-> SubOf(user)],
   iamRoleARN |-> role]

\* forwardRequestToHealthLake with a role that falls back to a default
\* when HEALTHLAKE_ROLE_ARN is not set
ForwardRequestToHealthLakeDefaultRole(ev, user, environment, nowMs) ==
  IF ev.datastoreEndpoint.kind = "undefined" \/ ev.bearerToken = Undefined
  THEN ErrorResponse(400, "invalid_request", "Missing datastoreEndpoint or bearerToken")
  ELSE AuthResponse(ev, user, environment, nowMs \div 1000,
                    (nowMs \div 1000) + TokenLifetime,
                    IF environment.HEALTHLAKE_ROLE_ARN = Undefined
                    THEN "arn:aws:iam::role/default"
                    ELSE environment.HEALTHLAKE_ROLE_ARN)

\* forwardRequestToHealthLake with an expiry added to the clock in
\* milliseconds instead of seconds
ForwardRequestToHealthLakeMsExpiry(ev, user, environment, nowMs) ==
  IF ev.datastoreEndpoint.kind = "undefined" \/ ev.bearerToken = Undefined
  THEN ErrorResponse(400, "invalid_request", "Missing datastoreEndpoint or bearerToken")
  ELSE IF environment.HEALTHLAKE_ROLE_ARN = Undefined
  THEN ErrorResponse(500, "server_error",
                     "HealthLake IAM role configuration is missing")
  ELSE AuthResponse(ev, user, environment, nowMs \div 1000,
                    nowMs + TokenLifetime, environment.HEALTHLAKE_ROLE_ARN)

\* forwardRequestToHealthLake(event, userInfo), the clock reading nowMs
ForwardRequestToHealthLake(ev, user, environment, nowMs) ==
  IF ev.datastoreEndpoint.kind = "undefined" \/ ev.bearerToken = Undefined
  THEN ErrorResponse(400, "invalid_request", "Missing datastoreEndpoint or bearerToken")
  ELSE LET currentTimeInSeconds == nowMs \div 1000
           expirationTimeInSeconds == currentTimeInSeconds + TokenLifetime
       IN  IF environment.HEALTHLAKE_ROLE_ARN = Undefined
           THEN ErrorResponse(500, "server_error",
                              "HealthLake IAM role configuration is missing")
           ELSE [kind |-> "payload",
                 authPayload |->
                   [iss |-> IF environment.OAUTH2_SERVER_URL = Undefined
                            THEN "https://main-oauth2-server-link.com/oauth2/token"
                            ELSE environment.OAUTH2_SERVER_URL,
                    aud |-> ev.datastoreEndpoint,
                    iat |-> currentTimeInSeconds,
                    nbf |-> currentTimeInSeconds,
                    exp |-> expirationTimeInSeconds,
                    isAuthorized |-> TRUE,
                    scope |-> "system/*.*",
                    sub |-> SubOf(user)],
                 iamRoleARN |-> environment.HEALTHLAKE_ROLE_ARN]

\* the module-level `userInfo` (the function imported from os), which
\* handleSearchAll passes on because it declares no such parameter: a
\* function object, without a property Username
OsUserInfo == EmptyObject

handleSearchAll(ev, environment, nowMs) ==
  ForwardRequestToHealthLake(ev, OsUserInfo, environment, nowMs)

\* the seven handlers that pass their own userInfo on
handleOperation(ev, user, environment, nowMs) ==
  ForwardRequestToHealthLake(ev, user, environment, nowMs)

\* a default case that falls out of the switch to the handler's last
\* response, 400 invalid_request
UnhandledOperationFallsThrough(ev) ==
  ErrorResponse(400, "invalid_request", "No valid operationName provided")

\* the default case of the switch on event.operationName
UnhandledOperation(ev) ==
  ErrorResponse(400, "unsupported_operation", "Operation is not supported")

\* a switch without default case: every operation name is forwarded
SwitchOperationForwardsAll(ev, user, environment, nowMs) ==
  IF ev.operationName = "SearchAll" THEN handleSearchAll(ev, environment, nowMs)
  ELSE handleOperation(ev, user, environment, nowMs)

\* the switch on event.operationName
SwitchOperation(ev, user, environment, nowMs) ==
  IF ev.operationName = "SearchAll" THEN handleSearchAll(ev, environment, nowMs)
  ELSE IF ev.operationName \in SupportedOperations
  THEN handleOperation(ev, user, environment, nowMs)
  ELSE UnhandledOperation(ev)

\* the handler altered: a denied request is answered 401 unauthorized
HandlerResponseDenyAs401(ev, user, permitted, environment, nowMs) ==
  IF ~permitted
  THEN ErrorResponse(401, "unauthorized",
                     "User does not have permission to perform this operation")
  ELSE IF ev.operationName # Undefined
  THEN SwitchOperation(ev, user, environment, nowMs)
  ELSE ErrorResponse(400, "invalid_request", "No valid operationName provided")

\* the handler from the result of checkUserPermissions to its return
HandlerResponse(ev, user, permitted, environment, nowMs) ==
  IF ~permitted
  THEN ErrorResponse(403, "access_denied",
                     "User does not have permission to perform this operation")
  ELSE IF ev.operationName # Undefined
  THEN SwitchOperation(ev, user, environment, nowMs)
  ELSE ErrorResponse(400, "invalid_request", "No valid operationName provided")

(***************************************************************************)
(* The gateway authorizer: tokens, keys, jwt.decode, getSigningKey,        *)
(* jwt.verify and the responses of the handler.  jsonwebtoken and jwks-rsa *)
(* are libraries; they are modelled by what their calls answer.            *)
(***************************************************************************)
Unauthorized == <<"u", "n", "a", "u", "t", "h", "o", "r", "i", "z", "e", "d">>
EmailA == <<"a", "@", "x">>
NameA  == <<"a", "n", "n">>

\* the key ids of the issuer's key set, and the ids a token may name
RegisteredKeys == {"K1", "K2"}
TokenKeyIds == {"K1", "K9", Undefined}

\* a signature made with algorithm alg and the key material of key id key:
\* RS256 with the private key of the id, HS256 with the id's public key
\* taken as the shared secret
Signature(alg, key) == [present |-> TRUE, alg |-> alg, key |-> key]
NoSignature == [present |-> FALSE, alg |-> "none", key |-> Undefined]

\* the claims of a payload; an absent email or preferred_username is the
\* empty string (`||` treats both alike), an absent groups claim has = FALSE
Claims(sub, email, preferred, hasGroups, groups) ==
  [sub |-> sub, email |-> email, preferred_username |-> preferred,
   groups |-> [has |-> hasGroups, list |-> groups]]

ClaimSets ==
  {Claims(P1, EmailA, NameA, TRUE, <<"Patients", "Nurses">>),
   Claims(P1, <<>>, NameA, TRUE, <<"Administrators">>),
   Claims(P2, <<>>, <<>>, FALSE, <<>>),
   Claims(P2, <<>>, <<>>, TRUE, <<"constructor">>)}

\* exp and nbf of a payload, in seconds; nbf 0 stands for no nbf claim
TokenTimes == {[exp |-> 1, nbf |-> 0], [exp |-> 100, nbf |-> 0], [exp |-> 100, nbf |-> 2]}

\* the clock of jwt.verify, in seconds
VerifyClock == 0..MaxTicks

Jwt(alg, kid, claims, times, signature) ==
  [kind |-> "jwt", header |-> [alg |-> alg, kid |-> kid],
   payload |-> [has |-> TRUE, claims |-> claims, exp |-> times.exp, nbf |-> times.nbf],
   signature |-> signature]

\* a string that is no JWT, and a JWT whose payload decodes to a falsy value
Garbage == [kind |-> "garbage"]
NullPayloadJwt ==
  [kind |-> "jwt", header |-> [alg |-> "RS256", kid |-> "K1"],
   payload |-> [has |-> FALSE, claims |-> Claims(<<>>, <<>>, <<>>, FALSE, <<>>),
                exp |-> 0, nbf |-> 0],
   signature |-> Signature("RS256", "K1")]

Jwts ==
  {Jwt(alg, kid, claims, times, signature) :
     alg \in {"RS256", "HS256", "none"}, kid \in TokenKeyIds,
     claims \in ClaimSets, times \in TokenTimes,
     signature \in {Signature("RS256", "K1"), Signature("RS256", "K2"),
                    Signature("HS256", "K1"), NoSignature}}

\* event.authorizationToken: absent, or a token with or without "Bearer "
NoAuthorizationToken == [present |-> FALSE, bearer |-> FALSE, token |-> Garbage]
AuthorizationTokens ==
  {NoAuthorizationToken}
  \cup {[present |-> TRUE, bearer |-> TRUE, token |-> t] :
          t \in Jwts \cup {Garbage, NullPayloadJwt}}
  \cup {[present |-> TRUE, bearer |-> FALSE, token |-> t] :
          t \in {Garbage, Jwt("RS256", "K1", CHOOSE c \in ClaimSets : c.sub = P2,
                              [exp |-> 100, nbf |-> 0], Signature("RS256", "K1"))}}

MethodArns == {"arn:aws:execute-api:GET/a", "arn:aws:execute-api:GET/b"}

GatewayEvents == [authorizationToken : AuthorizationTokens, methodArn : MethodArns]

\* event.authorizationToken.replace('Bearer ', '')
ReplaceBearer(authorizationToken) == authorizationToken.token

\* jwt.decode(token, { complete: true }): null for what is no JWT
JwtDecode(token) ==
  IF token.kind = "jwt"
  THEN [isNull |-> FALSE, header |-> token.header, payload |-> token.payload]
  ELSE [isNull |-> TRUE, header |-> [alg |-> Undefined, kid |-> Undefined],
        payload |-> [has |-> FALSE]]

\* a result of a step: a value, or an exception with its message
Ok(value) == [ok |-> TRUE, value |-> value, message |-> "none"]
Throw(message) == [ok |-> FALSE, value |-> Undefined, message |-> message]

\* lines 25-36: the token taken from the event and decoded, or an exception
DecodeEvent(ev) ==
  IF ~ev.authorizationToken.present THEN Throw("Unauthorized")
  ELSE LET decoded == JwtDecode(ReplaceBearer(ev.authorizationToken))
       IN  IF decoded.isNull \/ ~decoded.payload.has
           THEN Throw("Invalid token format")
           ELSE Ok(decoded)

\* what client.getSigningKey(kid, callback) calls back with: "key" (the
\* public key of a registered id), "error" (an id the key set lacks, or a
\* fetch that failed) or "nokey" (neither error nor key).  An id in the
\* client's cache is answered from it, without a fetch.
KeyClientAnswers(kid, cache) ==
  IF kid \in cache THEN {"key"}
  ELSE IF kid \in RegisteredKeys THEN {"key", "error"}
  ELSE {"error", "nokey"}

\* getSigningKey altered: a key the client did not find is replaced by the
\* first key of the set
GetSigningKeyDefault(kid, answer) ==
  IF answer = "key" THEN [ok |-> TRUE, value |-> kid, message |-> "none"]
  ELSE [ok |-> TRUE, value |-> "K1", message |-> "none"]

\* getSigningKey(kid) on that answer: resolves with the public key of the
\* id, or rejects
GetSigningKey(kid, answer) ==
  IF answer = "error" THEN Throw("SigningKeyNotFoundError")
  ELSE IF answer = "key" THEN Ok(kid)
  ELSE Throw("undefined")

\* jws signature check: the signature was made with this algorithm and the
\* key material of this key
JwsVerify(signature, alg, key) ==
  signature.present /\ signature.alg = alg /\ signature.key = key

\* jwt.verify altered: exp is not looked at
JwtVerifyIgnoreExpiration(token, signingKey, algorithms, now) ==
  IF ~token.signature.present THEN Throw("jwt signature is required")
  ELSE IF token.header.alg \notin algorithms THEN Throw("invalid algorithm")
  ELSE IF ~JwsVerify(token.signature, token.header.alg, signingKey)
  THEN Throw("invalid signature")
  ELSE IF token.payload.nbf > now THEN Throw("jwt not active")
  ELSE Ok(token.payload.claims)

\* jwt.verify(token, signingKey, { algorithms }) at clock now: the payload,
\* or the exception of the first check that fails
JwtVerify(token, signingKey, algorithms, now) ==
  IF ~token.signature.present THEN Throw("jwt signature is required")
  ELSE IF token.header.alg \notin algorithms THEN Throw("invalid algorithm")
  ELSE IF ~JwsVerify(token.signature, token.header.alg, signingKey)
  THEN Throw("invalid signature")
  ELSE IF token.payload.nbf > now THEN Throw("jwt not active")
  ELSE IF now >= token.payload.exp THEN Throw("jwt expired")
  ELSE Ok(token.payload.claims)

\* line 42 altered: the algorithm of the token's header is accepted
VerifyTokenAnyAlgorithm(token, signingKey, now) ==
  JwtVerify(token, signingKey, {"RS256", "HS256", "none"}, now)

\* line 42: only RS256 is acceptable
VerifyToken(token, signingKey, now) == JwtVerify(token, signingKey, {"RS256"}, now)

\* names.join(','), the names kept whole
RECURSIVE JoinNames(_)
JoinNames(names) ==
  IF names = <<>> THEN <<>>
  ELSE IF Len(names) = 1 THEN <<names[1]>>
  ELSE <<names[1], ",">> \o JoinNames(Tail(names))

\* strings.join(',')
RECURSIVE JoinStrings(_)
JoinStrings(strings) ==
  IF strings = <<>> THEN <<>>
  ELSE IF Len(strings) = 1 THEN strings[1]
  ELSE strings[1] \o <<",">> \o JoinStrings(Tail(strings))

\* the name taken from sub whenever there is one
UserNameOfSubFirst(claims) ==
  IF claims.sub # <<>> THEN claims.sub
  ELSE IF claims.email # <<>> THEN claims.email
  ELSE claims.preferred_username

\* verifiedToken.email || verifiedToken.preferred_username || verifiedToken.sub
UserNameOf(claims) ==
  IF claims.email # <<>> THEN claims.email
  ELSE IF claims.preferred_username # <<>> THEN claims.preferred_username
  ELSE claims.sub

\* verifiedToken['cognito:groups'] || []
UserGroupsOf(claims) == IF claims.groups.has THEN claims.groups.list ELSE <<>>

\* the policy document altered: every resource
PolicyDocumentWildcard(effect, resource) ==
  [Version |-> "2012-10-17",
   Statement |-> <<[Action |-> "execute-api:Invoke", Effect |-> effect,
                    Resource |-> "*"]>>]

PolicyDocument(effect, resource) ==
  [Version |-> "2012-10-17",
   Statement |-> <<[Action |-> "execute-api:Invoke", Effect |-> effect,
                    Resource |-> resource]>>]

\* lines 46-91: the response for a verified token
AllowResponse(ev, claims) ==
  [principalId |-> UserNameOf(claims),
   policyDocument |-> PolicyDocument("Allow", ev.methodArn),
   hasContext |-> TRUE,
   context |-> [userId |-> claims.sub,
                userName |-> UserNameOf(claims),
                groups |-> JoinNames(UserGroupsOf(claims)),
                scopes |-> JoinStrings(AllowedActions(UserGroupsOf(claims), claims.sub))]]

\* lines 61-63: the reduce over the groups; spreading policies[group] throws
\* for a group named like a property every object inherits (a function)
ReduceGroups(groups, userId) ==
  IF ReduceThrows(groups)
  THEN Throw("not iterable")
  ELSE Ok(AllowedActions(groups, userId))

\* the catch altered: the response tells what failed
DenyResponseWithReason(ev, message) ==
  [principalId |-> Unauthorized,
   policyDocument |-> PolicyDocument("Deny", ev.methodArn),
   hasContext |-> TRUE,
   context |-> [reason |-> message]]

\* lines 93-107: the response of the catch, whatever was thrown
DenyResponse(ev, message) ==
  [principalId |-> Unauthorized,
   policyDocument |-> PolicyDocument("Deny", ev.methodArn),
   hasContext |-> FALSE]

(***************************************************************************)
(* The state of one container of the bridge and its steps                  *)
(***************************************************************************)
VARIABLES
  env,           \* process.env, fixed when the container starts
  pc,            \* where the handler is: idle, getUserInfo,
                 \* checkUserPermissions, respond, done
  event,         \* the event of the invocation
  userInfo,      \* what getUserInfo returned
  userGroups,    \* the directory's answer to adminListGroupsForUser
  hasPermission, \* what checkUserPermissions returned
  response,      \* what the handler returned
  calls,         \* the functions and directory calls made so far, in order
  prevCheck,     \* an earlier permission check of this container, to compare with
  gwPc,          \* where the authorizer's handler is: idle, received,
                 \* getSigningKey, done
  gwEvent,       \* the event of the authorizer's invocation
  gwNow,         \* the clock of the invocation, in seconds
  keyCache,      \* the key ids the JWKS client holds from earlier invocations
  gwKey,         \* what getSigningKey resolved or rejected with
  gwOutcome,     \* how the authorizer's handler ended and with which response
  gwMessage,     \* err.message as the catch logs it
  gwCalls,       \* the library calls of the invocation, in order
  prevDeny       \* an earlier refusal of this container, to compare with

bridgeVars == <<env, pc, event, userInfo, userGroups, hasPermission, response, calls, prevCheck>>
gatewayVars == <<gwPc, gwEvent, gwNow, keyCache, gwKey, gwOutcome, gwMessage, gwCalls, prevDeny>>
vars == <<bridgeVars, gatewayVars>>

NoGatewayEvent == [authorizationToken |-> NoAuthorizationToken, methodArn |-> Undefined]
NoKey == [ok |-> FALSE, value |-> Undefined, message |-> "none"]
NoOutcome == [kind |-> "none"]
NoDeny == [set |-> FALSE]

\* the authorizer's container between two invocations
GatewayIdle ==
  /\ gwPc = "idle"
  /\ gwEvent = NoGatewayEvent
  /\ gwNow = 0
  /\ gwKey = NoKey
  /\ gwOutcome = NoOutcome
  /\ gwMessage = "none"
  /\ gwCalls = <<>>

NoResponse == [kind |-> "none"]
NoEvent == [operationName |-> Undefined, datastoreEndpoint |-> NoEndpoint,
            bearerToken |-> Undefined]
NoCheck == [set |-> FALSE]

Init ==
  /\ env \in Environments
  /\ pc = "idle"
  /\ event = NoEvent
  /\ userInfo = EmptyObject
  /\ userGroups = Rejected
  /\ hasPermission = FALSE
  /\ response = NoResponse
  /\ calls = <<>>
  /\ prevCheck = NoCheck
  /\ GatewayIdle
  /\ keyCache = {}
  /\ prevDeny = NoDeny

\* the runtime calls exports.handler with an event
Invoke ==
  /\ pc = "idle"
  /\ \E ev \in Events : event' = ev
  /\ pc' = "getUserInfo"
  /\ UNCHANGED <<env, userInfo, userGroups, hasPermission, response, calls>>
  /\ UNCHANGED <<prevCheck, gatewayVars>>

\* getUserInfo(event): {} without a call when the token is missing,
\* otherwise what cognito.getUser answers, {} when it rejects
GetUserInfo ==
  /\ pc = "getUserInfo"
  /\ IF event.bearerToken = Undefined
     THEN /\ userInfo' = EmptyObject
          /\ calls' = calls \o <<"getUserInfo">>
     ELSE /\ \/ userInfo' = EmptyObject
             \/ \E name \in UserNames : userInfo' = UserRecord(name)
          /\ calls' = calls \o <<"getUserInfo", "cognito.getUser">>
  /\ pc' = "checkUserPermissions"
  /\ UNCHANGED <<env, event, userGroups, hasPermission, response>>
  /\ UNCHANGED <<prevCheck, gatewayVars>>

\* what cognito.adminListGroupsForUser({Username: user.Username, ...}) can
\* resolve to: a rejection, or the list of the user's groups.  Username is a
\* required parameter of the call: without one ({} from getUserInfo) the
\* request is rejected and no list is ever returned.
DirectoryAnswers(user) ==
  IF user.has THEN {Rejected} \cup {GroupsAnswer(g) : g \in GroupLists}
  ELSE {Rejected}

\* checkUserPermissions(event, userInfo), from the directory's answer to
\* adminListGroupsForUser to its return
CheckPermissionsStep ==
  /\ pc = "checkUserPermissions"
  /\ \E answer \in DirectoryAnswers(userInfo) :
       /\ userGroups' = answer
       /\ hasPermission' = CheckUserPermissions(event, userInfo, answer)
  /\ calls' = calls \o <<"checkUserPermissions", "cognito.adminListGroupsForUser">>
  /\ pc' = "respond"
  /\ UNCHANGED <<env, event, userInfo, response>>
  /\ UNCHANGED <<prevCheck, gatewayVars>>

\* the rest of the handler: deny, or dispatch on operationName
Respond ==
  /\ pc = "respond"
  /\ \E nowMs \in ClockValues :
       response' = HandlerResponse(event, userInfo, hasPermission, env, nowMs)
  /\ calls' = IF hasPermission /\ event.operationName \in SupportedOperations
              THEN calls \o <<"forwardRequestToHealthLake">>
              ELSE calls
  /\ pc' = "done"
  /\ UNCHANGED <<env, event, userInfo, userGroups, hasPermission>>
  /\ UNCHANGED <<prevCheck, gatewayVars>>

\* the invocation is over: nothing of it is kept for the next one
Return ==
  /\ pc = "done"
  /\ pc' = "idle"
  /\ event' = NoEvent
  /\ userInfo' = EmptyObject
  /\ userGroups' = Rejected
  /\ hasPermission' = FALSE
  /\ response' = NoResponse
  /\ calls' = <<>>
  /\ UNCHANGED env
  /\ UNCHANGED <<prevCheck, gatewayVars>>

Next == Invoke \/ GetUserInfo \/ CheckPermissionsStep \/ Respond \/ Return

Spec == Init /\ [][Next]_vars

(***************************************************************************)
(* Repeated permission checks in one container: the same steps, with a few *)
(* requests that come again and an earlier check kept for comparison       *)
(***************************************************************************)
RepeatedEvents ==
  [operationName : {"ReadResource", "SearchWithGet"},
   datastoreEndpoint : {Url(PathOf(<<R4, Patient>>), <<>>),
                        Url(PathOf(<<P1, Patient>>), <<>>),
                        Url(PathOf(<<R4, Patient>>), SearchOf(PatientKey, P1))},
   bearerToken : {"token"}]

RepeatedInit ==
  /\ Init
  /\ env = [HEALTHLAKE_ROLE_ARN |-> "arn:aws:iam::role/healthlake",
            OAUTH2_SERVER_URL |-> Undefined]

\* the runtime calls exports.handler with one of the repeated events
InvokeRepeated ==
  /\ pc = "idle"
  /\ \E ev \in RepeatedEvents : event' = ev
  /\ pc' = "getUserInfo"
  /\ UNCHANGED <<env, userInfo, userGroups, hasPermission, response, calls>>
  /\ UNCHANGED <<prevCheck, gatewayVars>>

\* the invocation is over; its permission check may be kept for comparison
ReturnKeeping ==
  /\ pc = "done"
  /\ pc' = "idle"
  /\ event' = NoEvent
  /\ userInfo' = EmptyObject
  /\ userGroups' = Rejected
  /\ hasPermission' = FALSE
  /\ response' = NoResponse
  /\ calls' = <<>>
  /\ \/ prevCheck' = prevCheck
     \/ /\ userGroups.ok
        /\ prevCheck' = [set |-> TRUE,
                         user |-> userInfo,
                         groups |-> {userGroups.Groups[i] : i \in 1..Len(userGroups.Groups)},
                         operationName |-> event.operationName,
                         datastoreEndpoint |-> event.datastoreEndpoint,
                         decision |-> hasPermission]
  /\ UNCHANGED env
  /\ UNCHANGED gatewayVars

RepeatedNext ==
  InvokeRepeated \/ GetUserInfo \/ CheckPermissionsStep \/ Respond \/ ReturnKeeping

RepeatedSpec == RepeatedInit /\ [][RepeatedNext]_vars

(***************************************************************************)
(* The authorizer's container and the steps of its handler                 *)
(***************************************************************************)
Returned(resp) == [kind |-> "returned", response |-> resp]
Thrown == [kind |-> "thrown"]

\* the catch altered: the exception is thrown again
CatchRethrows(ev, message) == Thrown

\* the catch of the handler: log err.message, return the Deny response
Catch(ev, message) == Returned(DenyResponse(ev, message))

\* the statements after the await, for a resolved key: verify, extract the
\* claims, reduce the groups, build the Allow response
AfterKey(ev, signingKey, now) ==
  LET verified == VerifyToken(ReplaceBearer(ev.authorizationToken), signingKey, now)
      reduced == ReduceGroups(UserGroupsOf(verified.value), verified.value.sub)
  IN  IF ~verified.ok
      THEN [outcome |-> Catch(ev, verified.message), message |-> verified.message]
      ELSE IF ~reduced.ok
      THEN [outcome |-> Catch(ev, reduced.message), message |-> reduced.message]
      ELSE [outcome |-> Returned(AllowResponse(ev, verified.value)), message |-> "none"]

GatewayInit ==
  /\ env = [HEALTHLAKE_ROLE_ARN |-> Undefined, OAUTH2_SERVER_URL |-> Undefined]
  /\ pc = "idle"
  /\ event = NoEvent
  /\ userInfo = EmptyObject
  /\ userGroups = Rejected
  /\ hasPermission = FALSE
  /\ response = NoResponse
  /\ calls = <<>>
  /\ prevCheck = NoCheck
  /\ GatewayIdle
  /\ keyCache = {}
  /\ prevDeny = NoDeny

\* API Gateway calls exports.handler with an event
GwInvoke ==
  /\ gwPc = "idle"
  /\ \E ev \in GatewayEvents : gwEvent' = ev
  /\ \E now \in VerifyClock : gwNow' = now
  /\ gwPc' = "received"
  /\ UNCHANGED <<keyCache, gwKey, gwOutcome, gwMessage, gwCalls, prevDeny>>
  /\ UNCHANGED bridgeVars

\* the handler up to its await: the token is taken and decoded, then
\* getSigningKey(decoded.header.kid) is called; an exception goes to the catch
GwDecode ==
  /\ gwPc = "received"
  /\ LET decoded == DecodeEvent(gwEvent)
     IN  IF decoded.ok
         THEN /\ gwCalls' = gwCalls \o <<[fn |-> "jwt.decode", arg |-> "token"],
                                         [fn |-> "getSigningKey",
                                          arg |-> decoded.value.header.kid]>>
              /\ gwPc' = "getSigningKey"
              /\ UNCHANGED <<gwOutcome, gwMessage>>
         ELSE /\ gwCalls' = IF gwEvent.authorizationToken.present
                            THEN gwCalls \o <<[fn |-> "jwt.decode", arg |-> "token"]>>
                            ELSE gwCalls
              /\ gwOutcome' = Catch(gwEvent, decoded.message)
              /\ gwMessage' = decoded.message
              /\ gwPc' = "done"
  /\ UNCHANGED <<gwEvent, gwNow, keyCache, gwKey, prevDeny>>
  /\ UNCHANGED bridgeVars

\* the JWKS client calls back; the handler goes on to its return
GwKeyCallback ==
  /\ gwPc = "getSigningKey"
  /\ LET kid == JwtDecode(ReplaceBearer(gwEvent.authorizationToken)).header.kid
     IN  \E answer \in KeyClientAnswers(kid, keyCache) :
           LET key == GetSigningKey(kid, answer)
               rest == AfterKey(gwEvent, key.value, gwNow)
           IN  /\ gwKey' = key
               /\ keyCache' = IF answer = "key" THEN keyCache \cup {kid} ELSE keyCache
               /\ IF key.ok
                  THEN /\ gwCalls' = gwCalls \o <<[fn |-> "jwt.verify", arg |-> key.value]>>
                       /\ gwOutcome' = rest.outcome
                       /\ gwMessage' = rest.message
                  ELSE /\ gwCalls' = gwCalls
                       /\ gwOutcome' = Catch(gwEvent, key.message)
                       /\ gwMessage' = key.message
  /\ gwPc' = "done"
  /\ UNCHANGED <<gwEvent, gwNow, prevDeny>>
  /\ UNCHANGED bridgeVars

\* the invocation is over; the container keeps the client's cache
GwReturn ==
  /\ gwPc = "done"
  /\ gwPc' = "idle"
  /\ gwEvent' = NoGatewayEvent
  /\ gwNow' = 0
  /\ gwKey' = NoKey
  /\ gwOutcome' = NoOutcome
  /\ gwMessage' = "none"
  /\ gwCalls' = <<>>
  /\ \/ prevDeny' = prevDeny
     \/ /\ gwMessage # "none"
        /\ prevDeny' = [set |-> TRUE, methodArn |-> gwEvent.methodArn,
                        message |-> gwMessage, outcome |-> gwOutcome]
  /\ UNCHANGED keyCache
  /\ UNCHANGED bridgeVars

\* between two invocations the client may drop an id it holds (its entries
\* have an age limit)
GwCacheExpires ==
  /\ gwPc = "idle"
  /\ \E kid \in keyCache : keyCache' = keyCache \ {kid}
  /\ UNCHANGED <<gwPc, gwEvent, gwNow, gwKey, gwOutcome, gwMessage, gwCalls, prevDeny>>
  /\ UNCHANGED bridgeVars

GatewayNext == GwInvoke \/ GwDecode \/ GwKeyCallback \/ GwReturn \/ GwCacheExpires

GatewaySpec == GatewayInit /\ [][GatewayNext]_vars

(***************************************************************************)
(* The authorizer when the key set endpoint never answers.  Nothing in the *)
(* handler bounds the await: what ends it is the request timeout of the    *)
(* JWKS client or the timeout of the function, whichever is shorter.       *)
(***************************************************************************)
\* seconds after which the runtime stops an invocation of the authorizer:
\* the function is declared without a timeout and gets the default
AuthorizerTimeout == 3

\* seconds after which the JWKS client gives up a request: the client is
\* created without a timeout and gets the default
JwksRequestTimeout == 30

NeverAnswered == [ok |-> FALSE, value |-> Undefined, message |-> "never answered"]
Aborted == [kind |-> "aborted"]

\* the await on getSigningKey when the fetch of the key set gets no answer
GwLookupHangs ==
  /\ gwPc = "getSigningKey"
  /\ JwtDecode(ReplaceBearer(gwEvent.authorizationToken)).header.kid \notin keyCache
  /\ gwKey' = NeverAnswered
  /\ IF JwksRequestTimeout < AuthorizerTimeout
     THEN /\ gwOutcome' = Catch(gwEvent, "timeout")
          /\ gwMessage' = "timeout"
     ELSE /\ gwOutcome' = Aborted
          /\ gwMessage' = "Task timed out"
  /\ gwPc' = "done"
  /\ UNCHANGED <<gwEvent, gwNow, keyCache, gwCalls, prevDeny>>
  /\ UNCHANGED bridgeVars

GatewayTimeoutNext ==
  GwInvoke \/ GwDecode \/ GwKeyCallback \/ GwLookupHangs \/ GwReturn \/ GwCacheExpires

GatewayTimeoutSpec == GatewayInit /\ [][GatewayTimeoutNext]_vars

(***************************************************************************)
(* The vocabulary of the properties: the permission check as the           *)
(* specification of the policy evaluator words it.                         *)
(***************************************************************************)
\* checkUserPermissions has returned
Checked == pc \in {"respond", "done"}

\* the directory answered with the principal's groups
GroupSet == {userGroups.Groups[i] : i \in 1..Len(userGroups.Groups)}
PrincipalAllowed ==
  UNION {{Policies(g, UserIdText(userInfo))[i] :
            i \in 1..Len(Policies(g, UserIdText(userInfo)))} : g \in GroupSet}

\* a principal whose groups are known and give no universal wildcard
NonWildcard == Checked /\ userGroups.ok /\ Wildcard \notin PrincipalAllowed

OnlyGroup(group) == Checked /\ userGroups = GroupsAnswer(<<group>>)

\* the request: resource type, operation, target path, target query
IsUrl == event.datastoreEndpoint.kind = "url"
TargetSegments ==
  LET pieces == Split(event.datastoreEndpoint.pathname, "/")
  IN  {pieces[i] : i \in 1..Len(pieces)} \ {<<>>}
TargetQueryNames == ParamNames(URLSearchParams(event.datastoreEndpoint.search))
ResourceType == ResourcePath(event.datastoreEndpoint)

\* the required-permission table has an entry for the request
HasTableEntry ==
  /\ IsUrl
  /\ ResourceType \in DOMAIN ResourceOperationPermissionsMap
  /\ event.operationName \in DOMAIN ResourceOperationPermissionsMap[ResourceType]
RequiredSet ==
  LET perms == ResourceOperationPermissionsMap[ResourceType][event.operationName]
  IN  {perms[i] : i \in 1..Len(perms)}

SearchOperations == {"SearchAll", "SearchWithGet", "SearchWithPost"}
SingleResourceOperations == {"ReadResource", "UpdateResource", "DeleteResource"}

\* a permission string: scoped or not, its base permission, and the names
\* and bound values of its scope constraint
IsScoped(entry) == IndexOf(entry, "?") # 0
BaseOf(entry) == SubSeq(entry, 1, IndexOf(entry, "?") - 1)
ConstraintOf(entry) ==
  URLSearchParams(SubSeq(entry, IndexOf(entry, "?") + 1, Len(entry)))
ConstraintNames(entry) == ParamNames(ConstraintOf(entry))
BoundValues(entry) ==
  {ConstraintOf(entry)[i][2] : i \in 1..Len(ConstraintOf(entry))}

\* the entries of the principal for a permission, scoped or not
EntriesFor(permission) ==
  {entry \in PrincipalAllowed :
     IF IsScoped(entry) THEN BaseOf(entry) = permission ELSE entry = permission}

\* the scope constraint of a scoped entry is satisfied by the request
ScopeSatisfied(entry) ==
  IF event.operationName \in SearchOperations
  THEN ConstraintNames(entry) \subseteq TargetQueryNames
  ELSE IF event.operationName \in SingleResourceOperations
  THEN BoundValues(entry) \subseteq TargetSegments
  ELSE TRUE

\* some entry of the principal matches the permission
Satisfiable(permission) ==
  \E entry \in EntriesFor(permission) : IsScoped(entry) => ScopeSatisfied(entry)

\* every entry of the principal for a required permission is a scoped one
OnlyScopedEntries ==
  \A permission \in RequiredSet :
     /\ EntriesFor(permission) # {}
     /\ \A entry \in EntriesFor(permission) : IsScoped(entry)

IsError(statusCode, error) ==
  /\ response.kind = "error"
  /\ response.statusCode = statusCode
  /\ response.error = error

(***************************************************************************)
(* The properties                                                          *)
(***************************************************************************)
\* C1: the permission check authorizes a non-wildcard request exactly when
\* every required permission has at least one matching entry in
\* allowedActions (an unscoped entry equal to it, or a scoped entry with that
\* base whose scope constraint the request satisfies); one matching entry
\* suffices even beside an unsatisfied scoped entry for the same permission.
C1_AuthorizedIffEveryRequiredSatisfiable ==
  (NonWildcard /\ HasTableEntry) =>
     (hasPermission <=> \A permission \in RequiredSet : Satisfiable(permission))

\* C2: a principal in Patients only, with subject id P1, is authorized for
\* ReadResource on .../Patient/P1 and denied on .../Patient/P2.
C2_PatientReadsOwnRecordOnly ==
  (OnlyGroup("Patients") /\ userInfo = UserRecord(P1)
     /\ event.operationName = "ReadResource") =>
     /\ (event.datastoreEndpoint = Url(PathOf(<<R4, Patient, P1>>), <<>>)
           => hasPermission)
     /\ (event.datastoreEndpoint = Url(PathOf(<<R4, Patient, P2>>), <<>>)
           => ~hasPermission)

\* C3: for SearchAll, SearchWithGet and SearchWithPost, a principal whose
\* only entries for the required permission are scoped ones is denied
\* whenever a query parameter named in the scope constraint is absent from
\* the request's query parameters.
C3_SearchDeniedWhenScopeParameterAbsent ==
  (NonWildcard /\ HasTableEntry /\ event.operationName \in SearchOperations
     /\ OnlyScopedEntries
     /\ \E permission \in RequiredSet : \A entry \in EntriesFor(permission) :
          ~(ConstraintNames(entry) \subseteq TargetQueryNames))
  => ~hasPermission

\* C4: for SearchWithGet, a scoped entry satisfies its required permission
\* whenever every query parameter named in its scope constraint is present
\* in the request's query, whatever its value: a principal in Patients only
\* who searches Patient with a `patient` parameter is authorized.
C4_SearchWithGetAuthorizedWhenParameterPresent ==
  (NonWildcard /\ HasTableEntry /\ event.operationName = "SearchWithGet"
     /\ OnlyScopedEntries
     /\ \A permission \in RequiredSet : \A entry \in EntriesFor(permission) :
          ConstraintNames(entry) \subseteq TargetQueryNames)
  => hasPermission

\* C5: for ReadResource, UpdateResource and DeleteResource, a scoped entry
\* satisfies its required permission only if its bound value is equal to a
\* whole segment of the target path; containing it as a substring of a
\* segment, or across segments, does not satisfy it.
C5_BoundValueIsWholePathSegment ==
  (NonWildcard /\ HasTableEntry
     /\ event.operationName \in SingleResourceOperations
     /\ OnlyScopedEntries /\ hasPermission)
  => \A permission \in RequiredSet : \E entry \in EntriesFor(permission) :
        BoundValues(entry) \subseteq TargetSegments

\* C6: for a principal without the universal wildcard the permission check
\* never returns true for a (resourceType, operation) pair that has no entry
\* in the required-permission table.
C6_NoTableEntryNeverAuthorized ==
  (NonWildcard /\ IsUrl /\ ~HasTableEntry) => ~hasPermission

\* C7: a principal whose directory groups include Administrators is
\* authorized for every (resourceType, operation) pair, before any table
\* lookup or scope matching.
C7_AdministratorsAlwaysAuthorized ==
  (Checked /\ userGroups.ok /\ "Administrators" \in GroupSet) => hasPermission

\* C8: a principal in Practitioners only is authorized for CreateResource
\* and UpdateResource on Patient and on Observation, and is denied for every
\* operation on a resource type the required-permission table does not list.
C8_PractitionersWriteListedTypesOnly ==
  (OnlyGroup("Practitioners") /\ IsUrl) =>
     /\ (event.operationName \in {"CreateResource", "UpdateResource"}
           /\ ResourceType \in {Patient, Observation} => hasPermission)
     /\ (ResourceType \notin DOMAIN ResourceOperationPermissionsMap
           => ~hasPermission)

\* C9: a request in which bearerToken or datastoreEndpoint is missing gets
\* 400 invalid_request, produced before any permission check runs.
C9_MissingFieldsRejectedBeforePermissionCheck ==
  (pc = "done"
     /\ (event.bearerToken = Undefined \/ event.datastoreEndpoint.kind = "undefined"))
  => /\ IsError(400, "invalid_request")
     /\ \A i \in 1..Len(calls) :
          calls[i] \notin {"checkUserPermissions", "cognito.adminListGroupsForUser"}

\* C10 as stated: a request whose operationName is present but is not one of
\* the eight supported names gets 400 unsupported_operation, whatever the
\* principal's groups and whatever resource the target path names.
C10_UnsupportedOperationAlways400 ==
  (pc = "done" /\ event.operationName # Undefined
     /\ event.operationName \notin SupportedOperations)
  => IsError(400, "unsupported_operation")

\* C10 as amended: a request whose operationName is present but is not one
\* of the eight supported names gets 400 unsupported_operation when the
\* permission check returned true, and 403 access_denied when it returned
\* false.
C10_UnsupportedOperationAfterPermission ==
  (pc = "done" /\ event.operationName # Undefined
     /\ event.operationName \notin SupportedOperations)
  => IF hasPermission THEN IsError(400, "unsupported_operation")
     ELSE IsError(403, "access_denied")

\* C10 witness: an unsupported operation name, permitted, answered with
\* 400 unsupported_operation.
C10_Witness ==
  /\ pc = "done" /\ event.operationName = "PatchResource"
  /\ hasPermission /\ IsError(400, "unsupported_operation")

\* C11 as stated: every bridge invocation made while HEALTHLAKE_ROLE_ARN
\* is unset returns 500 server_error.
C11_RoleUnsetAlways500 ==
  (pc = "done" /\ env.HEALTHLAKE_ROLE_ARN = Undefined)
  => IsError(500, "server_error")

\* the invocation came to the role check of forwardRequestToHealthLake:
\* permitted, a supported operation, both request fields present
ReachedRoleCheck ==
  /\ hasPermission
  /\ event.operationName \in SupportedOperations
  /\ event.datastoreEndpoint.kind # "undefined"
  /\ event.bearerToken # Undefined

\* C11 as amended: while HEALTHLAKE_ROLE_ARN is unset no invocation returns
\* a success payload, and every invocation that passed the permission check
\* with a supported operation and both request fields present returns 500
\* server_error; the missing role is never replaced by a default.
C11_RoleUnsetNeverPayload ==
  (pc = "done" /\ env.HEALTHLAKE_ROLE_ARN = Undefined)
  => /\ response.kind # "payload"
     /\ ReachedRoleCheck => IsError(500, "server_error")

\* C11 witness: a permitted read with the role unset, answered with 500.
C11_Witness ==
  /\ pc = "done" /\ env.HEALTHLAKE_ROLE_ARN = Undefined
  /\ ReachedRoleCheck /\ event.operationName = "ReadResource"
  /\ IsError(500, "server_error")

\* cognito.getUser was called and rejected
GetUserRejected ==
  /\ \E i \in 1..Len(calls) : calls[i] = "cognito.getUser"
  /\ ~userInfo.has

\* cognito.adminListGroupsForUser was called and rejected
ListGroupsRejected ==
  /\ \E i \in 1..Len(calls) : calls[i] = "cognito.adminListGroupsForUser"
  /\ ~userGroups.ok

\* C12: if a user-directory lookup fails during a bridge request (getUser
\* or adminListGroupsForUser rejects), the response is 403 access_denied
\* and no success payload is returned.
C12_DirectoryFailureDenies ==
  (pc = "done" /\ (GetUserRejected \/ ListGroupsRejected))
  => IsError(403, "access_denied")

\* C12 witness: getUser answered with a user, adminListGroupsForUser
\* rejected, and the supported operation was answered with 403.
C12_Witness ==
  /\ pc = "done" /\ userInfo.has /\ ListGroupsRejected
  /\ event.operationName = "ReadResource"
  /\ event.datastoreEndpoint.kind = "url"
  /\ IsError(403, "access_denied")

\* C20: in every success payload returned by the bridge, exp minus iat
\* equals exactly 3600 seconds.
C20_PayloadLifetimeIs3600 ==
  (pc = "done" /\ response.kind = "payload")
  => response.authPayload.exp - response.authPayload.iat = 3600

\* C20 witness: a payload issued when the clock read 1000 ms or later.
C20_Witness ==
  /\ pc = "done" /\ response.kind = "payload"
  /\ response.authPayload.iat >= 1
  /\ response.authPayload.exp = response.authPayload.iat + 3600


\* the status and error code pairs of the interface
ErrorPairs ==
  {<<403, "access_denied">>, <<400, "invalid_request">>,
   <<400, "unsupported_operation">>, <<500, "server_error">>}

\* C22: every bridge invocation returns a success payload or an error
\* response with one of the four status and code pairs; a permission check
\* that returned false gives 403 access_denied
C22_ResponseIsPayloadOrKnownError ==
  pc = "done" =>
     /\ \/ response.kind = "payload"
        \/ /\ response.kind = "error"
           /\ <<response.statusCode, response.error>> \in ErrorPairs
     /\ ~hasPermission => IsError(403, "access_denied")

\* a request refused by the check although its groups were listed
C22_Witness ==
  /\ pc = "done"
  /\ userGroups.ok
  /\ ~hasPermission
  /\ event.operationName = "CreateResource"
  /\ IsError(403, "access_denied")

\* the operation name has an entry in the required-permission table
OperationInTable ==
  \E resource \in DOMAIN ResourceOperationPermissionsMap :
     event.operationName \in DOMAIN ResourceOperationPermissionsMap[resource]

\* C26: a success payload is returned only if the permission check returned
\* true, the operation is one of the eight supported ones, datastoreEndpoint
\* and bearerToken are present and the role is set; never for an operation
\* name the required-permission table lacks
C26_PayloadOnlyWhenAllChecksPass ==
  (pc = "done" /\ response.kind = "payload") =>
     /\ hasPermission
     /\ event.operationName \in SupportedOperations
     /\ event.datastoreEndpoint.kind # "undefined"
     /\ event.bearerToken # Undefined
     /\ env.HEALTHLAKE_ROLE_ARN # Undefined
     /\ response.authPayload.isAuthorized
     /\ response.iamRoleARN = env.HEALTHLAKE_ROLE_ARN
     /\ OperationInTable

\* an operation name the table lacks, let through by the check for a
\* practitioner, and stopped by the switch
C26_Witness ==
  /\ pc = "done"
  /\ userGroups = GroupsAnswer(<<"Practitioners">>)
  /\ event.operationName = "PatchResource"
  /\ ~OperationInTable
  /\ event.bearerToken # Undefined
  /\ env.HEALTHLAKE_ROLE_ARN # Undefined
  /\ hasPermission
  /\ response.kind = "error"

\* C27: the sub of a success payload is the Username the directory returned
\* for the bearer token, and 'anonymous' only when it returned none
C27_SubIsDirectoryUsername ==
  (pc = "done" /\ response.kind = "payload") =>
     response.authPayload.sub = IF userInfo.has THEN userInfo.Username ELSE Anonymous

(***************************************************************************)
(* The authorizer's claims                                                 *)
(***************************************************************************)
GwToken == ReplaceBearer(gwEvent.authorizationToken)
GwDecoded == gwEvent.authorizationToken.present /\ DecodeEvent(gwEvent).ok
IsDeny(outcome) ==
  /\ outcome.kind = "returned"
  /\ outcome.response.policyDocument.Statement[1].Effect = "Deny"
IsAllow(outcome) ==
  /\ outcome.kind = "returned"
  /\ outcome.response.policyDocument.Statement[1].Effect = "Allow"
Called(fn) == \E i \in 1..Len(gwCalls) : gwCalls[i].fn = fn

\* C13: the authorizer's handler never throws; whatever exception a stage
\* raises, it returns a Deny response
C13_HandlerNeverThrows ==
  /\ gwOutcome.kind # "thrown"
  /\ gwPc = "done" =>
       /\ gwOutcome.kind = "returned"
       /\ gwMessage # "none" => IsDeny(gwOutcome)

\* an exception after the token was verified, in the reduce over the groups
C13_Witness ==
  /\ gwPc = "done"
  /\ Called("jwt.verify")
  /\ gwMessage = "not iterable"
  /\ IsDeny(gwOutcome)

UniformDeny(methodArn) ==
  [principalId |-> Unauthorized,
   policyDocument |-> [Version |-> "2012-10-17",
                       Statement |-> <<[Action |-> "execute-api:Invoke",
                                        Effect |-> "Deny",
                                        Resource |-> methodArn]>>],
   hasContext |-> FALSE]

\* C14: two refused requests with the same methodArn get the same response,
\* whatever failed: principalId 'unauthorized', one Deny statement on
\* methodArn, no context
C14_UniformDeny ==
  (gwPc = "done" /\ gwMessage # "none") =>
     /\ gwOutcome = Returned(UniformDeny(gwEvent.methodArn))
     /\ (prevDeny.set /\ prevDeny.methodArn = gwEvent.methodArn)
          => prevDeny.outcome = gwOutcome

\* an absent token earlier, an expired token now, same methodArn
C14_Witness ==
  /\ gwPc = "done"
  /\ prevDeny.set
  /\ prevDeny.methodArn = gwEvent.methodArn
  /\ prevDeny.message = "Unauthorized"
  /\ gwMessage = "jwt expired"
  /\ prevDeny.outcome = gwOutcome

\* C15: every response, Allow or Deny, has exactly one statement and its
\* Resource is the methodArn of the request, never a wildcard
C15_OneStatementOnMethodArn ==
  gwOutcome.kind = "returned" =>
     /\ Len(gwOutcome.response.policyDocument.Statement) = 1
     /\ gwOutcome.response.policyDocument.Statement[1].Resource = gwEvent.methodArn
     /\ gwOutcome.response.policyDocument.Statement[1].Resource # "*"

C15_Witness ==
  /\ gwPc = "done"
  /\ IsAllow(gwOutcome)
  /\ gwOutcome.response.policyDocument.Statement[1].Resource = gwEvent.methodArn
  /\ gwEvent.methodArn \in MethodArns

\* C16: Allow only for a token whose signature verifies under RS256 with
\* the key resolved for its key id; a token of any other algorithm is denied
C16_AllowOnlyRS256 ==
  /\ IsAllow(gwOutcome) =>
       /\ GwToken.header.alg = "RS256"
       /\ GwToken.header.kid \in RegisteredKeys
       /\ gwKey = Ok(GwToken.header.kid)
       /\ GwToken.signature = Signature("RS256", GwToken.header.kid)
  /\ (gwPc = "done" /\ GwDecoded /\ GwToken.header.alg # "RS256") => IsDeny(gwOutcome)

\* a token of header alg HS256, signed with the public key of K1 as the
\* shared secret, after the key of K1 was resolved
C16_Witness ==
  /\ gwPc = "done"
  /\ GwDecoded
  /\ GwToken.header = [alg |-> "HS256", kid |-> "K1"]
  /\ GwToken.signature = Signature("HS256", "K1")
  /\ GwToken.payload.exp > gwNow
  /\ gwKey = Ok("K1")
  /\ gwMessage = "invalid algorithm"
  /\ IsDeny(gwOutcome)

\* C17: a token whose key id the key set lacks is denied; the failed
\* resolution rejects and no key takes the place of the missing one
C17_UnregisteredKeyDenied ==
  (gwPc = "done" /\ GwDecoded /\ GwToken.header.kid \notin RegisteredKeys) =>
     /\ IsDeny(gwOutcome)
     /\ ~gwKey.ok
     /\ ~Called("jwt.verify")

\* key id K9, signed by the registered key K1 and otherwise acceptable
C17_Witness ==
  /\ gwPc = "done"
  /\ GwDecoded
  /\ GwToken.header = [alg |-> "RS256", kid |-> "K9"]
  /\ GwToken.signature = Signature("RS256", "K1")
  /\ GwToken.payload.exp > gwNow
  /\ GwToken.payload.nbf <= gwNow
  /\ Called("getSigningKey")
  /\ IsDeny(gwOutcome)

ExpInThePast == GwDecoded /\ GwToken.payload.exp < gwNow

\* C18 as stated: a token whose exp is in the past fails with the
\* expired-token reason whether or not its signature is valid, and is denied
C18_ExpiredAlwaysTokenExpired ==
  (gwPc = "done" /\ ExpInThePast) =>
     /\ gwMessage = "jwt expired"
     /\ IsDeny(gwOutcome)

\* the checks jwt.verify makes before it looks at exp all pass
ChecksBeforeExpPass ==
  /\ gwKey.ok
  /\ GwToken.header.alg = "RS256"
  /\ GwToken.signature = Signature("RS256", gwKey.value)
  /\ GwToken.payload.nbf <= gwNow

\* C18: a token whose exp is in the past is denied; the reason is the
\* expired-token one when its key resolves and the checks of algorithm,
\* signature and nbf pass, and the reason of the first failing check otherwise
C18_ExpiredDenied ==
  (gwPc = "done" /\ ExpInThePast) =>
     /\ IsDeny(gwOutcome)
     /\ ChecksBeforeExpPass <=> gwMessage = "jwt expired"

C18_Witness ==
  /\ gwPc = "done"
  /\ ExpInThePast
  /\ ChecksBeforeExpPass
  /\ gwMessage = "jwt expired"
  /\ IsDeny(gwOutcome)

\* C19: getSigningKey is never called for a token without a key id; such a
\* token is denied before key resolution
C19_NoKeyResolutionWithoutKid ==
  /\ \A i \in 1..Len(gwCalls) :
       gwCalls[i].fn = "getSigningKey" => gwCalls[i].arg # Undefined
  /\ (gwPc = "done" /\ gwEvent.authorizationToken.present
        /\ (~GwDecoded \/ GwToken.header.kid = Undefined)) => IsDeny(gwOutcome)


(***************************************************************************)
(* Claims on repeated permission checks                                    *)
(***************************************************************************)
\* the check of this invocation had the request of the check kept earlier
SameRequestAsBefore ==
  /\ Checked
  /\ userGroups.ok
  /\ prevCheck.set
  /\ prevCheck.operationName = event.operationName
  /\ prevCheck.datastoreEndpoint = event.datastoreEndpoint

\* C28: with the user id and the request fixed, a request authorized with a
\* group set is authorized with every superset of it
C28_MonotonicInGroups ==
  (SameRequestAsBefore /\ prevCheck.user = userInfo
     /\ prevCheck.groups \subseteq GroupSet /\ prevCheck.decision)
     => hasPermission


GwClaims == GwToken.payload.claims
GwContext == gwOutcome.response.context

\* the text is the names joined by commas: the names in order once the
\* commas are taken out, and one comma between two names
IsCommaJoined(text, names) ==
  /\ SelectSeq(text, LAMBDA x : x # ",") = names
  /\ Len(text) = IF names = <<>> THEN 0 ELSE 2 * Len(names) - 1

\* C23: on Allow, principalId and context.userName are the token's email if
\* present, else preferred_username if present, else sub; context.userId is
\* sub; context.groups is the comma-joined groups claim, empty without one
C23_PrincipalForwarded ==
  IsAllow(gwOutcome) =>
     /\ gwOutcome.response.hasContext
     /\ gwOutcome.response.principalId = GwContext.userName
     /\ GwClaims.email # <<>> => GwContext.userName = GwClaims.email
     /\ (GwClaims.email = <<>> /\ GwClaims.preferred_username # <<>>)
          => GwContext.userName = GwClaims.preferred_username
     /\ (GwClaims.email = <<>> /\ GwClaims.preferred_username = <<>>)
          => GwContext.userName = GwClaims.sub
     /\ GwContext.userId = GwClaims.sub
     /\ GwClaims.groups.has => IsCommaJoined(GwContext.groups, GwClaims.groups.list)
     /\ ~GwClaims.groups.has => GwContext.groups = <<>>

\* a token with email, preferred_username and two groups
C23_Witness ==
  /\ gwPc = "done"
  /\ IsAllow(gwOutcome)
  /\ GwClaims.email = EmailA
  /\ GwClaims.preferred_username = NameA
  /\ gwOutcome.response.principalId = EmailA
  /\ GwContext.userId = P1
  /\ GwContext.groups = <<"Patients", ",", "Nurses">>

\* jwt.verify returned the payload of the token of this invocation
GwVerified ==
  /\ gwPc = "done"
  /\ Called("jwt.verify")
  /\ VerifyToken(GwToken, gwKey.value, gwNow).ok

\* the groups of the token give no permission
NoPolicyGroups ==
  \A i \in 1..Len(UserGroupsOf(GwClaims)) :
     UserGroupsOf(GwClaims)[i] \notin {"Administrators", "Practitioners", "Patients"}

\* C29: every token that verifies receives Allow, also with no groups or
\* only unknown groups, whose context.scopes is then the empty string
C29_VerifiedTokenAlwaysAllowed ==
  GwVerified =>
     /\ IsAllow(gwOutcome)
     /\ NoPolicyGroups => GwContext.scopes = <<>>


\* C25: an invocation whose external lookup never answers still returns a
\* decision: the lookup counts as failed and the outcome is Deny
C25_HungLookupEndsInDeny ==
  gwPc = "done" =>
     /\ gwOutcome.kind = "returned"
     /\ gwKey = NeverAnswered => IsDeny(gwOutcome)

====
